---- MODULE Spec2Model ----
(***************************************************************************)
(* Attendance tracker (whotterre/atninedance): the attendance session      *)
(* routes, the student registration route and the face matcher, as a state *)
(* machine over the four database tables and the wall clock.               *)
(*                                                                         *)
(* Time is in seconds.  A nullable column holds None when it is NULL.      *)
(* A table is the sequence of its rows; a row's id is its position.        *)
(* A similarity is an exact fraction [n, d] (d > 0).                       *)
(***************************************************************************)
EXTENDS Integers, Sequences, FiniteSets, TLC

\* ------------------------------------------------------------------ bounds
MaxNow == 90           \* the clock stops advancing here (seconds)
MaxSessions == 2       \* rows of attendance_sessions
MaxRequests == 4       \* requests served in one run

\* ------------------------------------------------------- program constants
None == -1                     \* NULL / Python None in an integer column
SecondsPerMinute == 60         \* timedelta(minutes=..), total_seconds() // 60
MaxImageBytes == 4194304       \* 1 << 22
ThresholdNum == 6              \* best_similarity > 0.6
ThresholdDen == 10
ConfidenceScale == 10000       \* round(float(best_similarity), 4)
DefaultDuration == 60          \* scheduled_duration column default
SecondsPerDay == 86400         \* timedelta.seconds is the part below one day

\* ------------------------------------------------------------ input domains
Ticks == {30}
Durations == {1}
MatricNos == {"M1", "M2"}
FullNames == {"Ada"}
\* Embedding vectors of integer magnitude (5), and the zero-length tuple for a
\* region DeepFace cannot embed.
NoEmbedding == <<>>
RegistryEmbeddings == {<<5, 0>>, <<0, 5>>}
RegionEmbeddings == {<<5, 0>>, <<3, 4>>, NoEmbedding}
ContentTypes == {"image/jpeg", "text/plain", "none"}   \* "none": no content type

\* ------------------------------------------------------------------- state
VARIABLES
    now,        \* datetime.now(timezone.utc)
    sessions,   \* table attendance_sessions
    records,    \* table attendance_records
    students,   \* table students
    faces,      \* table student_faces
    resp,       \* the response of the latest request
    served,     \* how many requests have been served
    req         \* per worker process: the recognize_and_record request in progress

vars == <<now, sessions, records, students, faces, resp, served, req>>

\* --------------------------------------------------------------- the rows
AttendanceSession(dur, start, st) ==
    [scheduled_duration |-> dur, actual_duration |-> None,
     start_time |-> start, end_time |-> None, status |-> st,
     total_students |-> 0, present_count |-> 0, late_count |-> 0]

AttendanceRecord(sid, student_id, conf, t) ==
    [session_id |-> sid, student_id |-> student_id, confidence_score |-> conf,
     detected_time |-> t, status |-> "present"]

Student(matric_no, full_name) == [matric_no |-> matric_no, full_name |-> full_name]

StudentFace(student_id, embedding) == [student_id |-> student_id, embedding |-> embedding]

\* An uploaded file: its declared content type, its length in bytes, whether
\* cv2.imdecode can decode it, the face regions the Haar cascade finds in it
\* (each with the embedding DeepFace gives it), and the embedding DeepFace
\* gives the whole image.
Upload(ct, size, dec, regions, whole) ==
    [content_type |-> ct, size |-> size, decodable |-> dec,
     regions |-> regions, whole |-> whole]

\* Images with no, one or two detected face regions.
RegionSeqs ==
    {<<>>} \cup {<<a>> : a \in RegionEmbeddings}
           \cup {<<<<5, 0>>, <<5, 0>>>>, <<<<5, 0>>, <<3, 4>>>>, <<NoEmbedding, <<5, 0>>>>}

RecognizeUploads ==
    {Upload("image/jpeg", 1000, TRUE, r, NoEmbedding) : r \in RegionSeqs}
    \cup {Upload("image/jpeg", MaxImageBytes + 1, TRUE, <<<<5, 0>>>>, NoEmbedding),
          Upload("image/jpeg", 1000, FALSE, <<<<5, 0>>>>, NoEmbedding)}
    \cup {Upload(ct, 1000, TRUE, <<<<5, 0>>>>, NoEmbedding) : ct \in ContentTypes \ {"image/jpeg"}}

RegisterUploads ==
    {Upload("image/jpeg", 1000, TRUE, <<>>, e) : e \in RegistryEmbeddings \cup {NoEmbedding}}
    \cup {Upload("image/jpeg", MaxImageBytes + 1, TRUE, <<>>, <<5, 0>>),
          Upload("image/jpeg", 1000, FALSE, <<>>, <<5, 0>>)}
    \cup {Upload(ct, 1000, TRUE, <<>>, <<5, 0>>) : ct \in ContentTypes \ {"image/jpeg"}}

NoUpload == Upload("none", 0, FALSE, <<>>, NoEmbedding)

\* What a request answered: the route, the session id asked for, the HTTP
\* status code and its detail, and for recognize_and_record the upload, the
\* recognized list, the count of new records, the present_count the request
\* found, whether it repeated the request before it and minutes_remaining; for
\* register_student_face the echoed matric_no and full_name.
Response(op, sid, code, detail, img, recognized, new, before) ==
    [op |-> op, sid |-> sid, code |-> code, detail |-> detail, img |-> img,
     recognized_students |-> recognized, new_attendance_records |-> new,
     present_before |-> before, repeat |-> FALSE,
     minutes_remaining |-> 0,
     matric_no |-> "", full_name |-> ""]

Plain(op, sid, code, detail) == Response(op, sid, code, detail, NoUpload, <<>>, 0, 0)

\* What register_student_face returns: StudentRegisterRequest echoes the
\* submitted matric_no and full_name; img is the upload the request carried.
Registered(matric_no, full_name, file) ==
    [Response("register", 0, 200, "ok", file, <<>>, 0, 0)
     EXCEPT !.matric_no = matric_no, !.full_name = full_name]

\* ------------------------------------------------------------ the matcher
OrZero(x) == IF x = None THEN 0 ELSE x

IsImageType(ct) == ct \in {"image/jpeg", "image/png"}

RECURSIVE DotFrom(_, _, _)
DotFrom(a, b, i) ==
    IF i > Len(a) THEN 0 ELSE a[i] * b[i] + DotFrom(a, b, i + 1)

Dot(a, b) == DotFrom(a, b, 1)

\* np.linalg.norm, exact on the vectors of the input domains
Norm(a) ==
    LET squares == Dot(a, a)
    IN  CHOOSE n \in 0..squares : n * n = squares

Frac(n, d) == [n |-> n, d |-> d]

FracGt(x, y) == x.n * y.d > y.n * x.d

\* The cosine itself, in [-1, 1], without the final (cos + 1) / 2.
cosine_similarityRaw(vec_one, vec_two) ==
    LET norm_one == Norm(vec_one)
        norm_two == Norm(vec_two)
    IN  IF norm_one = 0 \/ norm_two = 0
        THEN Frac(0, 1)
        ELSE Frac(Dot(vec_one, vec_two), norm_one * norm_two)

\* The quotient taken whatever the norms are.
cosine_similarityUnguarded(vec_one, vec_two) ==
    Frac(Dot(vec_one, vec_two) + Norm(vec_one) * Norm(vec_two),
         2 * Norm(vec_one) * Norm(vec_two))

\* cosine_similarity: 0.0 when either norm is 0, else
\* (dot / (norm_one * norm_two) + 1) / 2, as the fraction
\* (dot + norm_one * norm_two) / (2 * norm_one * norm_two).
cosine_similarity(vec_one, vec_two) ==
    LET dot_product == Dot(vec_one, vec_two)
        norm_one == Norm(vec_one)
        norm_two == Norm(vec_two)
    IN  IF norm_one = 0 \/ norm_two = 0
        THEN Frac(0, 1)
        ELSE Frac(dot_product + norm_one * norm_two, 2 * norm_one * norm_two)

\* round(float(best_similarity), 4), in ten-thousandths.  The bounding box of
\* a detected face stands as its position k in the list of detected faces.
RoundConfidence(s) == (2 * ConfidenceScale * s.n + s.d) \div (2 * s.d)

\* A scan that also replaces the best on an equal similarity.
RECURSIVE ScanFacesLast(_, _, _, _)
ScanFacesLast(embedding, all_faces, i, best) ==
    IF i > Len(all_faces) THEN best
    ELSE LET similarity == cosine_similarity(embedding, all_faces[i].embedding)
         IN  IF ~FracGt(best.similarity, similarity)
             THEN ScanFacesLast(embedding, all_faces, i + 1,
                                [match |-> all_faces[i].student_id, similarity |-> similarity])
             ELSE ScanFacesLast(embedding, all_faces, i + 1, best)

\* The scan of all_faces for one query embedding: best is (best_match,
\* best_similarity), replaced only by a strictly greater similarity.
RECURSIVE ScanFaces(_, _, _, _)
ScanFaces(embedding, all_faces, i, best) ==
    IF i > Len(all_faces) THEN best
    ELSE LET similarity == cosine_similarity(embedding, all_faces[i].embedding)
         IN  IF FracGt(similarity, best.similarity)
             THEN ScanFaces(embedding, all_faces, i + 1,
                            [match |-> all_faces[i].student_id, similarity |-> similarity])
             ELSE ScanFaces(embedding, all_faces, i + 1, best)

\* Acceptance at the threshold as well as above it.
AcceptedAtThreshold(best) ==
    best.match # None /\ ~FracGt(Frac(ThresholdNum, ThresholdDen), best.similarity)

\* Acceptance of whatever the scan found.
AcceptedAny(best) == best.match # None

\* if best_match and best_similarity > 0.6
Accepted(best) ==
    best.match # None /\ FracGt(best.similarity, Frac(ThresholdNum, ThresholdDen))

\* A loop that stops at the first region DeepFace cannot embed.
RECURSIVE RecognizeFromAbort(_, _, _)
RecognizeFromAbort(regions, all_faces, k) ==
    IF k > Len(regions) \/ regions[k] = NoEmbedding THEN <<>>
    ELSE LET rest == RecognizeFromAbort(regions, all_faces, k + 1)
             best == ScanFaces(regions[k], all_faces, 1,
                               [match |-> None, similarity |-> Frac(0, 1)])
         IN  IF Accepted(best)
             THEN <<[student_id |-> best.match,
                     confidence |-> RoundConfidence(best.similarity),
                     bbox |-> k]>> \o rest
             ELSE rest

\* The loop of recognize_faces over the detected faces: a region whose
\* embedding fails is skipped (except ValueError: continue).
RECURSIVE RecognizeFrom(_, _, _)
RecognizeFrom(regions, all_faces, k) ==
    IF k > Len(regions) THEN <<>>
    ELSE LET rest == RecognizeFrom(regions, all_faces, k + 1)
         IN  IF regions[k] = NoEmbedding
             THEN rest
             ELSE LET best == ScanFaces(regions[k], all_faces, 1,
                                        [match |-> None, similarity |-> Frac(0, 1)])
                  IN  IF Accepted(best)
                      THEN <<[student_id |-> best.match,
                              confidence |-> RoundConfidence(best.similarity),
                              bbox |-> k]>> \o rest
                      ELSE rest

recognize_faces(image, all_faces) == RecognizeFrom(image.regions, all_faces, 1)

\* ------------------------------------------------------------ the workers
\* Worker processes of the application share the database and nothing else.
Workers == {1, 2}

\* The locals of recognize_and_record in one worker: where it is, its
\* arguments, the session object it loaded, the recognized list, the loop
\* index, the records it has added to its db session and not committed, and
\* the length of new_records.
Request(pc, session_id, image, session, recognized, i, pending, new) ==
    [pc |-> pc, session_id |-> session_id, image |-> image, session |-> session,
     recognized |-> recognized, i |-> i, pending |-> pending, new |-> new]

NoSession == AttendanceSession(0, None, "none")

Idle == Request("idle", 0, NoUpload, NoSession, <<>>, 0, <<>>, 0)

Finished == Request("done", 0, NoUpload, NoSession, <<>>, 0, <<>>, 0)

\* ------------------------------------------------------------------- Init
\* The database holds no students, faces or records; attendance_sessions is
\* empty or holds one row that was inserted with the column defaults
\* (status scheduled, no start_time) or one that was cancelled.
SeedSessions ==
    {<<>>,
     <<AttendanceSession(DefaultDuration, None, "scheduled")>>,
     <<AttendanceSession(DefaultDuration, None, "cancelled")>>}

Init ==
    /\ now = 0
    /\ sessions \in SeedSessions
    /\ records = <<>>
    /\ students = <<>>
    /\ faces = <<>>
    /\ resp = Plain("none", 0, 0, "none")
    /\ served = 0
    /\ req = [w \in Workers |-> Idle]

\* ---------------------------------------------------------------- actions
Tick ==
    /\ \E d \in Ticks : now + d <= MaxNow /\ now' = now + d
    /\ UNCHANGED <<sessions, records, students, faces, resp, served, req>>

create_session(duration_minutes) ==
    /\ Len(sessions) < MaxSessions
    /\ sessions' = Append(sessions, AttendanceSession(duration_minutes, now, "active"))
    /\ resp' = Plain("create", Len(sessions) + 1, 201, "created")
    /\ UNCHANGED <<now, records, students, faces>>

\* elapsed.total_seconds() // 60
ElapsedMinutes(start, end) == (end - start) \div SecondsPerMinute

\* end_session without the check for cancelled.
EndRejectedCompletedOnly(session) == session.status = "completed"

EndRejected(session) == session.status = "completed" \/ session.status = "cancelled"

Ended(session, t) ==
    [session EXCEPT !.status = "completed",
                    !.end_time = t,
                    !.actual_duration =
                        IF session.start_time # None
                        THEN ElapsedMinutes(session.start_time, t)
                        ELSE session.actual_duration]

end_session(session_id) ==
    /\ UNCHANGED <<now, records, students, faces>>
    /\ IF session_id \notin 1..Len(sessions)
       THEN /\ resp' = Plain("end", session_id, 404, "not_found")
            /\ UNCHANGED sessions
       ELSE IF EndRejected(sessions[session_id])
       THEN /\ resp' = Plain("end", session_id, 400, "already_ended")
            /\ UNCHANGED sessions
       ELSE /\ sessions' = [sessions EXCEPT ![session_id] = Ended(sessions[session_id], now)]
            /\ resp' = Plain("end", session_id, 200, "ok")

\* session.start_time + timedelta(minutes=session.scheduled_duration)
SessionEnd(session) ==
    session.start_time + session.scheduled_duration * SecondsPerMinute

\* The expiry check with the duration taken for hours.
ExpiredInHours(session, t) ==
    t > session.start_time
        + session.scheduled_duration * SecondsPerMinute * SecondsPerMinute

Expired(session, t) == t > SessionEnd(session)

\* timedelta.seconds of a difference of d seconds: the days are held apart
\* (negative for a negative difference) and seconds is in 0..86399.
TimedeltaSeconds(d) == d % SecondsPerDay

\* max(0, (sesh_end_time - datetime.now(timezone.utc)).seconds // 60)
time_left_in_session(sesh_end_time, t) ==
    IF TimedeltaSeconds(sesh_end_time - t) \div SecondsPerMinute < 0
    THEN 0
    ELSE TimedeltaSeconds(sesh_end_time - t) \div SecondsPerMinute

\* AttendanceSession.is_active at time t
is_active(session, t) ==
    IF session.status # "active" THEN FALSE
    ELSE IF session.start_time = None THEN FALSE
    ELSE IF session.end_time # None THEN FALSE
    ELSE t < SessionEnd(session)

\* AttendanceSession.remaining_minutes at time t
remaining_minutes(session, t) ==
    IF ~is_active(session, t) THEN 0
    ELSE IF (SessionEnd(session) - t) \div SecondsPerMinute < 0 THEN 0
    ELSE (SessionEnd(session) - t) \div SecondsPerMinute

\* The query without its status filter.
ActiveSessionAnyStatus(table, session_id) == session_id \in 1..Len(table)

\* The query for the session row: it exists and its status is active.
ActiveSession(table, session_id) ==
    session_id \in 1..Len(table) /\ table[session_id].status = "active"

\* No duplicate check.
ExistingNever(table, session_id, student_id) == FALSE

\* The duplicate check, a SELECT on attendance_records.  SessionLocal has
\* autoflush=False, so the SELECT reads the table and never the rows the
\* request has added and not yet committed.
Existing(table, session_id, student_id) ==
    \E i \in 1..Len(table) :
        table[i].session_id = session_id /\ table[i].student_id = student_id

NewRecords(recognized, table, session_id) ==
    SelectSeq(recognized, LAMBDA person : ~Existing(table, session_id, person.student_id))

Inserted(new_records, session_id, t) ==
    [i \in 1..Len(new_records) |->
        AttendanceRecord(session_id, new_records[i].student_id,
                         new_records[i].confidence, t)]

\* present_count incremented once per request that recorded someone.
CountedOnce(session, new_records) ==
    IF Len(new_records) > 0
    THEN [session EXCEPT !.present_count = OrZero(session.present_count) + 1]
    ELSE session

Counted(session, new_records) ==
    IF Len(new_records) > 0
    THEN [session EXCEPT !.present_count = OrZero(session.present_count) + Len(new_records)]
    ELSE session

\* The request validated only after the batch was recorded and committed.
RejectAfterRecording(session_id, image, code, detail) ==
    /\ resp' = Plain("recognize", session_id, code, detail)
    /\ records' = records \o Inserted(recognize_faces(image, faces), session_id, now)
    /\ UNCHANGED sessions

\* A raise HTTPException before anything was added to the db session.
Reject(session_id, image, code, detail) ==
    /\ resp' = Plain("recognize", session_id, code, detail)
    /\ UNCHANGED <<sessions, records>>

\* Whether the request repeats the one answered last: the same upload for
\* the same session, which was served.
Repeats(session_id, image) ==
    resp.op = "recognize" /\ resp.code = 200 /\ resp.sid = session_id /\ resp.img = image

recognize_and_record(session_id, image) ==
    /\ UNCHANGED <<now, students, faces>>
    /\ IF ~ActiveSession(sessions, session_id)
       THEN Reject(session_id, image, 404, "not_found_or_not_active")
       ELSE LET session == sessions[session_id]
            IN
            IF Expired(session, now)
            THEN /\ sessions' = [sessions EXCEPT ![session_id].status = "completed"]
                 /\ resp' = Plain("recognize", session_id, 400, "session_ended")
                 /\ UNCHANGED records
            ELSE IF image.size > MaxImageBytes
            THEN Reject(session_id, image, 413, "too_large")
            ELSE IF ~IsImageType(image.content_type)
            THEN Reject(session_id, image, 400, "not_image")
            ELSE IF ~image.decodable
            THEN Reject(session_id, image, 400, "face_processing_failed")
            ELSE LET recognized == recognize_faces(image, faces)
                     new_records == NewRecords(recognized, records, session_id)
                 IN  /\ records' = records \o Inserted(new_records, session_id, now)
                     /\ sessions' = [sessions EXCEPT ![session_id] = Counted(session, new_records)]
                     /\ resp' = [Response("recognize", session_id, 200, "ok", image,
                                          recognized, Len(new_records),
                                          OrZero(session.present_count))
                                 EXCEPT !.repeat = Repeats(session_id, image),
                                        !.minutes_remaining =
                                            time_left_in_session(SessionEnd(session), now)]

\* fetch_unique: the id of the row with that key, or None
StudentByMatric(table, matric_no) ==
    IF \E i \in 1..Len(table) : table[i].matric_no = matric_no
    THEN CHOOSE i \in 1..Len(table) : table[i].matric_no = matric_no
    ELSE None

\* A lookup of the existing face that never finds one.
FaceByStudentNever(table, student_id) == None

\* StudentFace.fetch_unique(db, student_id=student.id)
FaceByStudent(table, student_id) ==
    IF \E i \in 1..Len(table) : table[i].student_id = student_id
    THEN CHOOSE i \in 1..Len(table) : table[i].student_id = student_id
    ELSE None

\* The Student row fetched or inserted before the upload is looked at.
RegisterRejectAfterStudent(matric_no, full_name, code, detail) ==
    /\ resp' = Plain("register", 0, code, detail)
    /\ students' = IF StudentByMatric(students, matric_no) = None
                   THEN Append(students, Student(matric_no, full_name))
                   ELSE students
    /\ UNCHANGED faces

\* A raise HTTPException of register_student_face: lines 33-54, before the
\* first statement that touches the database.
RegisterReject(matric_no, full_name, code, detail) ==
    /\ resp' = Plain("register", 0, code, detail)
    /\ UNCHANGED <<students, faces>>

\* A registration that also writes the submitted name to the row it found.
StudentRowsRenamed(table, found, matric_no, full_name) ==
    IF found = None
    THEN Append(table, Student(matric_no, full_name))
    ELSE [table EXCEPT ![found].full_name = full_name]

\* lines 58-61: the Student row is inserted when fetch_unique found none,
\* and is not written otherwise.
StudentRows(table, found, matric_no, full_name) ==
    IF found = None
    THEN Append(table, Student(matric_no, full_name))
    ELSE table

register_student_face(matric_no, full_name, file) ==
    /\ UNCHANGED <<now, sessions, records>>
    /\ IF ~IsImageType(file.content_type)
       THEN RegisterReject(matric_no, full_name, 400, "not_image")
       ELSE IF file.size > MaxImageBytes
       THEN RegisterReject(matric_no, full_name, 413, "too_large")
       ELSE IF ~file.decodable \/ file.whole = NoEmbedding
       THEN RegisterReject(matric_no, full_name, 400, "face_processing_failed")
       ELSE LET embedding == file.whole
                found == StudentByMatric(students, matric_no)
                student_id == IF found = None THEN Len(students) + 1 ELSE found
                existing_face == FaceByStudent(faces, student_id)
            IN  /\ students' = StudentRows(students, found, matric_no, full_name)
                /\ faces' = IF existing_face # None
                            THEN [faces EXCEPT ![existing_face].embedding = embedding]
                            ELSE Append(faces, StudentFace(student_id, embedding))
                /\ resp' = Registered(matric_no, full_name, file)

\* ------------------------------------------------------------------- Next
Serve == served < MaxRequests /\ served' = served + 1 /\ UNCHANGED req

CreateSession == Serve /\ \E d \in Durations : create_session(d)

EndSession == Serve /\ \E sid \in 1..(Len(sessions) + 1) : end_session(sid)

RecognizeAndRecord ==
    /\ Serve
    /\ \E sid \in 1..(Len(sessions) + 1) : \E image \in RecognizeUploads :
          recognize_and_record(sid, image)

RegisterStudentFace ==
    /\ Serve
    /\ \E m \in MatricNos : \E n \in FullNames : \E file \in RegisterUploads :
          register_student_face(m, n, file)

Next ==
    \/ Tick
    \/ CreateSession
    \/ EndSession
    \/ RecognizeAndRecord
    \/ RegisterStudentFace

Spec == Init /\ [][Next]_vars

\* ------------------------------------------------- one session in progress
\* The requests served while one session is live: the database after one
\* create_session at time 0 (a state Spec reaches), then registrations,
\* recognitions and the end of the session, as the clock advances.
InitLive ==
    /\ now = 0
    /\ sessions = <<AttendanceSession(1, 0, "active")>>
    /\ records = <<>>
    /\ students = <<>>
    /\ faces = <<>>
    /\ resp = Plain("create", 1, 201, "created")
    /\ served = 0
    /\ req = [w \in Workers |-> Idle]

NextLive ==
    \/ Tick
    \/ EndSession
    \/ RecognizeAndRecord
    \/ RegisterStudentFace

SpecLive == InitLive /\ [][NextLive]_vars

\* ------------------------------------------------------ registrations only
\* register_student_face requests against an empty database, with two
\* names to submit.
RegisterNames == {"Ada", "Bea"}

InitReg ==
    /\ now = 0
    /\ sessions = <<>>
    /\ records = <<>>
    /\ students = <<>>
    /\ faces = <<>>
    /\ resp = Plain("none", 0, 0, "none")
    /\ served = 0
    /\ req = [w \in Workers |-> Idle]

RegisterAnyName ==
    /\ Serve
    /\ \E m \in MatricNos : \E n \in RegisterNames : \E file \in RegisterUploads :
          register_student_face(m, n, file)

NextReg == RegisterAnyName

SpecReg == InitReg /\ [][NextReg]_vars

\* recognize_and_record statement by statement, in worker w.  Every SELECT
\* reads what is committed at that moment (READ COMMITTED); the attributes
\* of the loaded session object are the ones read when it was loaded.
ConcUploads ==
    {Upload("image/jpeg", 1000, TRUE, r, NoEmbedding) :
        r \in {<<<<5, 0>>>>, <<<<3, 4>>>>, <<<<5, 0>>, <<3, 4>>>>}}
    \cup {Upload("image/jpeg", MaxImageBytes + 1, TRUE, <<<<5, 0>>>>, NoEmbedding)}

Reply(w, code, detail) ==
    /\ resp' = Plain("recognize", req[w].session_id, code, detail)
    /\ req' = [req EXCEPT ![w] = Finished]

\* lines 149-155: load the session if it exists and is active
QuerySession(w) ==
    /\ req[w].pc = "idle"
    /\ UNCHANGED <<now, sessions, records, students, faces, served>>
    /\ \E session_id \in 1..(Len(sessions) + 1) : \E image \in ConcUploads :
          IF ~ActiveSession(sessions, session_id)
          THEN /\ resp' = Plain("recognize", session_id, 404, "not_found_or_not_active")
               /\ req' = [req EXCEPT ![w] = Finished]
          ELSE /\ req' = [req EXCEPT ![w] =
                          Request("expiry", session_id, image, sessions[session_id],
                                  <<>>, 0, <<>>, 0)]
               /\ UNCHANGED resp

\* lines 158-163: the expiry check, and the commit of status completed
CheckExpiry(w) ==
    /\ req[w].pc = "expiry"
    /\ UNCHANGED <<now, records, students, faces, served>>
    /\ IF Expired(req[w].session, now)
       THEN /\ sessions' = [sessions EXCEPT ![req[w].session_id].status = "completed"]
            /\ Reply(w, 400, "session_ended")
       ELSE /\ req' = [req EXCEPT ![w].pc = "image"]
            /\ UNCHANGED <<sessions, resp>>

\* lines 165-179: read and validate the upload, recognize the faces
ProcessImage(w) ==
    /\ req[w].pc = "image"
    /\ UNCHANGED <<now, sessions, records, students, faces, served>>
    /\ LET image == req[w].image
       IN  IF image.size > MaxImageBytes
           THEN Reply(w, 413, "too_large")
           ELSE IF ~IsImageType(image.content_type)
           THEN Reply(w, 400, "not_image")
           ELSE IF ~image.decodable
           THEN Reply(w, 400, "face_processing_failed")
           ELSE /\ req' = [req EXCEPT ![w].pc = "loop",
                                      ![w].recognized = recognize_faces(image, faces),
                                      ![w].i = 1]
                /\ UNCHANGED resp

\* lines 183-199: one pass of the loop over recognized
RecordPerson(w) ==
    /\ req[w].pc = "loop"
    /\ req[w].i <= Len(req[w].recognized)
    /\ UNCHANGED <<now, sessions, records, students, faces, served, resp>>
    /\ LET person == req[w].recognized[req[w].i]
       IN  IF Existing(records, req[w].session_id, person.student_id)
           THEN req' = [req EXCEPT ![w].i = @ + 1]
           ELSE req' = [req EXCEPT
                          ![w].i = @ + 1,
                          ![w].pending = @ \o Inserted(<<person>>, req[w].session_id, now),
                          ![w].new = @ + 1]

\* The commit under a uniqueness constraint on (session_id, student_id), a
\* conflict taken as "already recorded".
CommitRecordsUnique(w) ==
    /\ req[w].pc = "loop"
    /\ req[w].i > Len(req[w].recognized)
    /\ UNCHANGED <<now, students, faces, served, resp, sessions>>
    /\ records' = records \o
          SelectSeq(req[w].pending,
                    LAMBDA r : ~Existing(records, r.session_id, r.student_id))
    /\ req' = [req EXCEPT ![w].pc = "respond", ![w].pending = <<>>]

\* lines 201-205: count the new records on the loaded session object, commit
CommitRecords(w) ==
    /\ req[w].pc = "loop"
    /\ req[w].i > Len(req[w].recognized)
    /\ UNCHANGED <<now, students, faces, served, resp>>
    /\ records' = records \o req[w].pending
    /\ sessions' =
          IF req[w].new > 0
          THEN [sessions EXCEPT ![req[w].session_id].present_count =
                    OrZero(req[w].session.present_count) + req[w].new]
          ELSE sessions
    /\ req' = [req EXCEPT ![w].pc = "respond", ![w].pending = <<>>]

\* lines 207-216: the response
Respond(w) ==
    /\ req[w].pc = "respond"
    /\ UNCHANGED <<now, sessions, records, students, faces, served>>
    /\ resp' = [Response("recognize", req[w].session_id, 200, "ok", req[w].image,
                         req[w].recognized, req[w].new,
                         OrZero(req[w].session.present_count))
                EXCEPT !.repeat = Repeats(req[w].session_id, req[w].image),
                       !.minutes_remaining =
                           time_left_in_session(SessionEnd(req[w].session), now)]
    /\ req' = [req EXCEPT ![w] = Finished]

\* end_session in worker w, lines 103-119: load the session, reject a
\* missing, completed or cancelled one, set status, end_time and
\* actual_duration on the loaded object.
QueryEndSession(w) ==
    /\ req[w].pc = "idle"
    /\ UNCHANGED <<now, sessions, records, students, faces, served>>
    /\ \E session_id \in 1..(Len(sessions) + 1) :
          IF session_id \notin 1..Len(sessions)
          THEN /\ resp' = Plain("end", session_id, 404, "not_found")
               /\ req' = [req EXCEPT ![w] = Finished]
          ELSE IF EndRejected(sessions[session_id])
          THEN /\ resp' = Plain("end", session_id, 400, "already_ended")
               /\ req' = [req EXCEPT ![w] = Finished]
          ELSE /\ req' = [req EXCEPT ![w] =
                          Request("end", session_id, NoUpload,
                                  Ended(sessions[session_id], now), <<>>, 0, <<>>, 0)]
               /\ UNCHANGED resp

\* end_session, lines 121-128: the commit writes the three attributes set
\* on the loaded object, and the response follows.
CommitEndSession(w) ==
    /\ req[w].pc = "end"
    /\ UNCHANGED <<now, records, students, faces, served>>
    /\ sessions' = [sessions EXCEPT
                      ![req[w].session_id].status = req[w].session.status,
                      ![req[w].session_id].end_time = req[w].session.end_time,
                      ![req[w].session_id].actual_duration = req[w].session.actual_duration]
    /\ resp' = Plain("end", req[w].session_id, 200, "ok")
    /\ req' = [req EXCEPT ![w] = Finished]

\* The database after register_student_face for M1 and M2 and one
\* create_session, all at time 0 (a state Spec reaches).
InitConc ==
    /\ now = 0
    /\ sessions = <<AttendanceSession(1, 0, "active")>>
    /\ records = <<>>
    /\ students = <<Student("M1", "Ada"), Student("M2", "Ada")>>
    /\ faces = <<StudentFace(1, <<5, 0>>), StudentFace(2, <<0, 5>>)>>
    /\ resp = Registered("M2", "Ada", Upload("image/jpeg", 1000, TRUE, <<>>, <<0, 5>>))
    /\ served = 0
    /\ req = [w \in Workers |-> Idle]

NextConc ==
    \/ Tick
    \/ \E w \in Workers : QuerySession(w)
    \/ \E w \in Workers : CheckExpiry(w)
    \/ \E w \in Workers : ProcessImage(w)
    \/ \E w \in Workers : RecordPerson(w)
    \/ \E w \in Workers : CommitRecords(w)
    \/ \E w \in Workers : Respond(w)
    \/ \E w \in Workers : QueryEndSession(w)
    \/ \E w \in Workers : CommitEndSession(w)

SpecConc == InitConc /\ [][NextConc]_vars

\* ------------------------------------------------- the matcher on its own
\* recognize_faces and cosine_similarity applied to inputs drawn at the
\* start: a registry of at most two templates and an image of at most two
\* detected faces, or a pair of vectors.  The vectors have norm 0, 5 or 10,
\* so that similarities of 0, 0.55, 0.6 and 1 occur.
ZeroEmbedding == <<0, 0, 0, 0>>

MatchEmbeddings ==
    {<<5, 0, 0, 0>>, <<-5, 0, 0, 0>>, <<1, 2, 2, 4>>, <<1, 3, 3, 9>>, ZeroEmbedding}

MatchRegistries ==
    {<<>>} \cup {<<StudentFace(1, a)>> : a \in MatchEmbeddings}
           \cup {<<StudentFace(1, a), StudentFace(2, b)>> :
                    a \in MatchEmbeddings, b \in MatchEmbeddings}

MatchRegions ==
    {<<>>} \cup {<<a>> : a \in MatchEmbeddings \cup {NoEmbedding}}
           \cup {<<a, b>> : a \in MatchEmbeddings \cup {NoEmbedding},
                            b \in MatchEmbeddings \cup {NoEmbedding}}

MatchUploads == {Upload("image/jpeg", 1000, TRUE, r, NoEmbedding) : r \in MatchRegions}

\* The arguments and the result of one call: op tells which function and
\* whether it has returned.
Call(op, image, vec_one, vec_two) ==
    [op |-> op, img |-> image, vec_one |-> vec_one, vec_two |-> vec_two,
     recognized_students |-> <<>>, similarity |-> Frac(0, 1)]

InitMatch ==
    /\ now = 0
    /\ sessions = <<>>
    /\ records = <<>>
    /\ students = <<Student("M1", "Ada"), Student("M2", "Ada")>>
    /\ served = 0
    /\ req = [w \in Workers |-> Idle]
    /\ \/ /\ faces \in MatchRegistries
          /\ resp \in {Call("recognize_faces", image, <<>>, <<>>) : image \in MatchUploads}
       \/ /\ faces = <<>>
          /\ resp \in {Call("cosine_similarity", NoUpload, a, b) :
                          a \in MatchEmbeddings, b \in MatchEmbeddings}

RecognizeFaces ==
    /\ resp.op = "recognize_faces"
    /\ resp' = [resp EXCEPT !.op = "recognized",
                            !.recognized_students = recognize_faces(resp.img, faces)]
    /\ UNCHANGED <<now, sessions, records, students, faces, served, req>>

CosineSimilarity ==
    /\ resp.op = "cosine_similarity"
    /\ resp' = [resp EXCEPT !.op = "similarity",
                            !.similarity = cosine_similarity(resp.vec_one, resp.vec_two)]
    /\ UNCHANGED <<now, sessions, records, students, faces, served, req>>

NextMatch == RecognizeFaces \/ CosineSimilarity

SpecMatch == InitMatch /\ [][NextMatch]_vars

\* ================================================================ claims
RowsOf(table, session_id) ==
    SelectSeq(table, LAMBDA r : r.session_id = session_id)

RowsOfPair(table, session_id, student_id) ==
    SelectSeq(table, LAMBDA r : r.session_id = session_id /\ r.student_id = student_id)

SessionIds == 1..Len(sessions)

StudentIds == 1..Len(students)

\* A step that served a recognize_and_record request.
RecognizeStep == served' = served + 1 /\ resp'.op = "recognize"

\* A step that served an end_session request.
EndStep == served' = served + 1 /\ resp'.op = "end"

\* C1: in every reachable state there is at most one AttendanceRecord per
\* (session_id, student_id) pair, also after an image in which two detected
\* faces match the same student.
C1_AtMostOneRecordPerPair ==
    \A sid \in SessionIds : \A st \in StudentIds :
        Len(RowsOfPair(records, sid, st)) <= 1

\* C2: a photo with one face matching student S, served for a session where
\* S had no record, and submitted again by the next request: afterwards
\* exactly one record exists for (session, S), the second request adds
\* none, and present_count is 1 more than before the first request.
C2_SamePhotoTwice ==
    [][(/\ RecognizeStep
        /\ resp'.code = 200
        /\ resp.op = "recognize" /\ resp.code = 200
        /\ resp'.sid = resp.sid /\ resp'.img = resp.img
        /\ Len(resp.recognized_students) = 1
        /\ resp.new_attendance_records = 1)
       => (/\ Len(RowsOfPair(records', resp.sid,
                             resp.recognized_students[1].student_id)) = 1
           /\ resp'.new_attendance_records = 0
           /\ sessions'[resp.sid].present_count = resp.present_before + 1)]_vars

C2_Witness ==
    /\ resp.op = "recognize" /\ resp.code = 200 /\ resp.repeat
    /\ Len(resp.recognized_students) = 1
    /\ resp.new_attendance_records = 0
    /\ Len(RowsOfPair(records, resp.sid, resp.recognized_students[1].student_id)) = 1
    /\ Len(records) = 1
    /\ sessions[resp.sid].present_count = 1

\* C3: a recognize_and_record request on an active session whose
\* start_time + scheduled_duration has passed is answered with an error,
\* creates no record and leaves the session completed.
C3_ExpiredRejected ==
    [][\A sid \in SessionIds :
          (/\ RecognizeStep
           /\ resp'.sid = sid
           /\ sessions[sid].status = "active"
           /\ now > sessions[sid].start_time
                      + sessions[sid].scheduled_duration * SecondsPerMinute)
          => (/\ resp'.code >= 400
              /\ records' = records
              /\ sessions'[sid].status = "completed")]_vars

C3_Witness ==
    /\ resp.op = "recognize" /\ resp.detail = "session_ended"
    /\ sessions[resp.sid].status = "completed"
    /\ now > sessions[resp.sid].start_time
                + sessions[resp.sid].scheduled_duration * SecondsPerMinute

\* C4: every transition of a session from active to completed, by
\* end_session or by the expiry found in recognize_and_record, stamps
\* end_time and sets actual_duration to the floor of the elapsed minutes.
C4_CompletionStamped ==
    [][\A sid \in SessionIds :
          (sessions[sid].status = "active" /\ sessions'[sid].status = "completed")
          => (/\ sessions'[sid].end_time = now
              /\ sessions'[sid].actual_duration =
                     (now - sessions[sid].start_time) \div SecondsPerMinute)]_vars

\* C5: end_session on a session that is completed or cancelled is answered
\* with an error and leaves every field of the session unchanged.
C5_EndTwiceRejected ==
    [][\A sid \in SessionIds :
          (/\ EndStep
           /\ resp'.sid = sid
           /\ sessions[sid].status \in {"completed", "cancelled"})
          => (resp'.code = 400 /\ sessions'[sid] = sessions[sid])]_vars

C5_Witness ==
    /\ resp.op = "end" /\ resp.code = 400
    /\ sessions[resp.sid].status = "completed"
    /\ sessions[resp.sid].end_time # None

\* C6: once a session is completed or cancelled, no request changes its
\* status, its records or its present_count.
C6_Terminal ==
    [][\A sid \in SessionIds :
          sessions[sid].status \in {"completed", "cancelled"}
          => (/\ sessions'[sid].status = sessions[sid].status
              /\ RowsOf(records', sid) = RowsOf(records, sid)
              /\ sessions'[sid].present_count = sessions[sid].present_count)]_vars

C6_Witness ==
    /\ resp.op = "recognize" /\ resp.code = 404
    /\ resp.sid \in SessionIds
    /\ sessions[resp.sid].status = "completed"
    /\ sessions[resp.sid].end_time # None

\* C7: a recognize_and_record request answered with an error leaves the
\* AttendanceRecords and every session's present_count as they were.
C7_ErrorAppliesNothing ==
    [][(RecognizeStep /\ resp'.code # 200)
       => (/\ records' = records
           /\ \A sid \in SessionIds :
                 sessions'[sid].present_count = sessions[sid].present_count)]_vars

C7_Witness ==
    /\ resp.op = "recognize" /\ resp.code = 413
    /\ resp.sid \in SessionIds
    /\ sessions[resp.sid].status = "active"
    /\ Len(faces) > 0

\* C8: recognize_and_record creates records only for a session that is
\* live when the request arrives, as AttendanceSession.is_active has it:
\* status active, end_time unset and now < start_time + scheduled_duration.
C8_ServicedOnlyWhenLive ==
    [][(RecognizeStep /\ resp'.code = 200 /\ Len(records') > Len(records))
       => is_active(sessions[resp'.sid], now)]_vars

\* C9: present_count of every session equals the number of its
\* AttendanceRecords, and a served recognize_and_record request has raised
\* it by the number of records the request created.
C9_PresentCountIsRecordCount ==
    /\ \A sid \in SessionIds :
          sessions[sid].present_count = Len(RowsOf(records, sid))
    /\ (resp.op = "recognize" /\ resp.code = 200)
       => sessions[resp.sid].present_count
             = resp.present_before + resp.new_attendance_records

C9_Witness ==
    /\ resp.op = "recognize" /\ resp.code = 200
    /\ resp.new_attendance_records = 2
    /\ sessions[resp.sid].present_count = 2
    /\ Len(RowsOf(records, resp.sid)) = 2

\* C10: when two concurrent requests for the same live session have both
\* passed the duplicate check for the same student before either committed
\* (each counts one new record), both commits go through and the table
\* holds two AttendanceRecords for that (session, student).
BothPassedCheck ==
    /\ req[1].pc = "respond" /\ req[2].pc = "respond"
    /\ req[1].session_id = req[2].session_id
    /\ Len(req[1].recognized) = 1 /\ Len(req[2].recognized) = 1
    /\ req[1].recognized[1].student_id = req[2].recognized[1].student_id
    /\ req[1].new = 1 /\ req[2].new = 1

C10_RaceTwoRecords ==
    BothPassedCheck
    => Len(RowsOfPair(records, req[1].session_id,
                      req[1].recognized[1].student_id)) = 2

C10_Witness ==
    /\ BothPassedCheck
    /\ Len(RowsOfPair(records, req[1].session_id,
                      req[1].recognized[1].student_id)) = 2

\* ------------------------------------------------------- matcher claims
\* The person recognize_faces returned for detected face k, as a set.
PersonsAt(k) ==
    {j \in 1..Len(resp.recognized_students) : resp.recognized_students[j].bbox = k}

Threshold == Frac(ThresholdNum, ThresholdDen)

Similarity(k, i) == cosine_similarity(resp.img.regions[k], faces[i].embedding)

\* C11: recognize_faces reports a match for a detected face exactly when
\* some registry entry has a normalized similarity to it strictly above 0.6;
\* at 0.6 exactly, below it, or with an empty registry there is no match.
C11_MatchIffAboveThreshold ==
    resp.op = "recognized" =>
        \A k \in 1..Len(resp.img.regions) :
            resp.img.regions[k] # NoEmbedding =>
                (PersonsAt(k) # {} <=>
                    \E i \in 1..Len(faces) : FracGt(Similarity(k, i), Threshold))

\* A face whose best similarity is exactly 0.6 was processed and not matched.
C11_Witness ==
    /\ resp.op = "recognized"
    /\ resp.img.regions = <<<<5, 0, 0, 0>>>>
    /\ faces = <<StudentFace(1, <<1, 2, 2, 4>>)>>
    /\ cosine_similarity(<<5, 0, 0, 0>>, <<1, 2, 2, 4>>).n * ThresholdDen
          = ThresholdNum * cosine_similarity(<<5, 0, 0, 0>>, <<1, 2, 2, 4>>).d
    /\ resp.recognized_students = <<>>

\* Registry entry i is the first of those with the greatest similarity to
\* detected face k.
FirstBest(k, i) ==
    /\ \A j \in 1..Len(faces) : ~FracGt(Similarity(k, j), Similarity(k, i))
    /\ \A j \in 1..(i - 1) : FracGt(Similarity(k, i), Similarity(k, j))

\* C12: the identity recognize_faces reports for a face is the student of
\* the registry entry with the greatest similarity to it, the first such
\* entry in registry order when several tie; a face equal to A's template is
\* reported as A whatever other direction B's template has.
C12_FirstMaximumWins ==
    resp.op = "recognized" =>
        \A j \in 1..Len(resp.recognized_students) :
            \E i \in 1..Len(faces) :
                /\ FirstBest(resp.recognized_students[j].bbox, i)
                /\ resp.recognized_students[j].student_id = faces[i].student_id

\* Two students hold the same template and the face equals it: the first wins.
C12_Witness ==
    /\ resp.op = "recognized"
    /\ faces = <<StudentFace(1, <<1, 2, 2, 4>>), StudentFace(2, <<1, 2, 2, 4>>)>>
    /\ resp.img.regions = <<<<1, 2, 2, 4>>>>
    /\ Len(resp.recognized_students) = 1
    /\ resp.recognized_students[1].student_id = 1

Neg(a) == [i \in 1..Len(a) |-> 0 - a[i]]

IsOne(s) == s.d > 0 /\ s.n = s.d

IsZero(s) == s.d > 0 /\ s.n = 0

InUnitInterval(s) == s.d > 0 /\ 0 <= s.n /\ s.n <= s.d

\* C13 as stated: cosine_similarity(a, a) is 1.0 for every vector a,
\* cosine_similarity(a, -a) is 0.0, and every result lies in [0, 1].
C13_SimilarityOfSelfIsOne ==
    resp.op = "similarity" =>
        /\ resp.vec_two = resp.vec_one => IsOne(resp.similarity)
        /\ resp.vec_two = Neg(resp.vec_one) => IsZero(resp.similarity)
        /\ InUnitInterval(resp.similarity)

\* C13 amended: cosine_similarity(a, a) is 1.0 for every vector a of
\* non-zero magnitude (it is 0.0 for the zero vector), cosine_similarity(a, -a)
\* is 0.0, and every result lies in [0, 1].
C13_SimilarityOfNonZeroSelfIsOne ==
    resp.op = "similarity" =>
        /\ (resp.vec_two = resp.vec_one /\ Norm(resp.vec_one) # 0) => IsOne(resp.similarity)
        /\ (resp.vec_two = resp.vec_one /\ Norm(resp.vec_one) = 0) => IsZero(resp.similarity)
        /\ resp.vec_two = Neg(resp.vec_one) => IsZero(resp.similarity)
        /\ InUnitInterval(resp.similarity)

\* A vector compared with its negation.
C13_Witness ==
    /\ resp.op = "similarity"
    /\ resp.vec_one = <<5, 0, 0, 0>>
    /\ resp.vec_two = Neg(resp.vec_one)
    /\ IsZero(resp.similarity)

\* C14: cosine_similarity of a zero-magnitude argument is 0.0 with no
\* division by zero, and no face recognize_faces reports has a
\* zero-magnitude embedding or was matched to a zero-magnitude template.
C14_ZeroMagnitudeNeverMatches ==
    /\ resp.op = "similarity" =>
          /\ resp.similarity.d # 0
          /\ (Norm(resp.vec_one) = 0 \/ Norm(resp.vec_two) = 0) => IsZero(resp.similarity)
    /\ resp.op = "recognized" =>
          \A j \in 1..Len(resp.recognized_students) :
              /\ Norm(resp.img.regions[resp.recognized_students[j].bbox]) # 0
              /\ \A i \in 1..Len(faces) :
                    faces[i].student_id = resp.recognized_students[j].student_id
                        => Norm(faces[i].embedding) # 0

\* A zero-magnitude face met a registry that holds a zero-magnitude template
\* and a usable one, and nothing was reported.
C14_Witness ==
    /\ resp.op = "recognized"
    /\ resp.img.regions = <<ZeroEmbedding>>
    /\ faces = <<StudentFace(1, ZeroEmbedding), StudentFace(2, <<5, 0, 0, 0>>)>>
    /\ resp.recognized_students = <<>>

\* ------------------------------------------------- registration claims
\* A step that served a register_student_face request.
RegisterStep == served' = served + 1 /\ resp'.op = "register"

FacesOf(table, student_id) == {i \in 1..Len(table) : table[i].student_id = student_id}

\* C15: a successful register_student_face leaves every student with at
\* most one StudentFace, leaves the registering student's face holding the
\* embedding of this upload, and leaves the faces of the other students as
\* they were; no other step changes a face.  So each student's face holds
\* the embedding of that student's latest successful registration.
C15_OneFaceLatestEmbedding ==
    [][IF RegisterStep /\ resp'.code = 200
       THEN LET student_id == StudentByMatric(students', resp'.matric_no)
            IN  /\ student_id # None
                /\ \A s \in 1..Len(students') : Cardinality(FacesOf(faces', s)) <= 1
                /\ \E i \in FacesOf(faces', student_id) :
                      faces'[i].embedding = resp'.img.whole
                /\ \A i \in 1..Len(faces) :
                      faces[i].student_id # student_id => faces'[i] = faces[i]
       ELSE faces' = faces]_vars

\* M1 was recognized with similarity 1.0 against the template <<5, 0>> and
\* has registered again since: its one face now holds <<0, 5>>.
C15_Witness ==
    /\ resp.op = "register" /\ resp.code = 200 /\ resp.matric_no = "M1"
    /\ resp.img.whole = <<0, 5>>
    /\ faces = <<StudentFace(1, <<0, 5>>)>>
    /\ Len(records) = 1
    /\ records[1].student_id = 1 /\ records[1].confidence_score = ConfidenceScale

\* C18: a register_student_face request that fails (content type not an
\* image, more than 4 MiB, undecodable, or no embeddable face) creates no
\* Student and creates or modifies no StudentFace.
C18_FailedRegistrationWritesNothing ==
    [][(RegisterStep /\ resp'.code # 200) => (students' = students /\ faces' = faces)]_vars

\* A registration failed in face processing and the tables are still empty.
C18_Witness ==
    /\ resp.op = "register" /\ resp.code = 400
    /\ resp.detail = "face_processing_failed"
    /\ served = 1
    /\ students = <<>> /\ faces = <<>>

\* ---------------------------------------------- recognition request claims
\* The upload passes the size, content-type and decoding checks.
Readable(image) ==
    image.size <= MaxImageBytes /\ IsImageType(image.content_type) /\ image.decodable

\* The session exists, is active and its scheduled window has not passed.
Live(session_id) ==
    /\ session_id \in SessionIds
    /\ sessions[session_id].status = "active"
    /\ now <= sessions[session_id].start_time
                + sessions[session_id].scheduled_duration * SecondsPerMinute

\* Some template of the registry is similar enough to the embedding.
Matches(embedding) ==
    /\ embedding # NoEmbedding
    /\ \E i \in 1..Len(faces) :
          FracGt(cosine_similarity(embedding, faces[i].embedding), Threshold)

\* C16: when DeepFace cannot embed one detected region of an image, a
\* recognize_and_record request on a live session still answers 200, and
\* every other region that matches a template is reported and has an
\* attendance record afterwards.
C16_FailedRegionIsSkipped ==
    [][(RecognizeStep /\ Live(resp'.sid)) =>
        \A image \in RecognizeUploads :
            ( /\ Readable(image)
              /\ \E f \in 1..Len(image.regions) : image.regions[f] = NoEmbedding
              /\ recognize_and_record(resp'.sid, image) )
            => /\ resp'.code = 200
               /\ \A k \in 1..Len(image.regions) :
                     Matches(image.regions[k]) =>
                        \E j \in 1..Len(resp'.recognized_students) :
                            /\ resp'.recognized_students[j].bbox = k
                            /\ RowsOfPair(records', resp'.sid,
                                          resp'.recognized_students[j].student_id) # <<>>]_vars

\* The first region failed to embed and the second produced a new record.
C16_Witness ==
    /\ resp.op = "recognize" /\ resp.code = 200
    /\ resp.img.regions = <<NoEmbedding, <<5, 0>>>>
    /\ Len(resp.recognized_students) = 1
    /\ resp.recognized_students[1].bbox = 2
    /\ resp.new_attendance_records = 1
    /\ RowsOf(records, resp.sid) # <<>>

\* C17: a recognize_and_record request on a live session whose image has no
\* detected face, or only faces that match no template, answers 200 with an
\* empty recognized list and new_attendance_records = 0, and leaves the
\* records and the session (present_count, status) unchanged.
C17_NoMatchIsEmptySuccess ==
    [][(RecognizeStep /\ Live(resp'.sid)) =>
        \A image \in RecognizeUploads :
            ( /\ Readable(image)
              /\ \A k \in 1..Len(image.regions) : ~Matches(image.regions[k])
              /\ recognize_and_record(resp'.sid, image) )
            => /\ resp'.code = 200
               /\ resp'.recognized_students = <<>>
               /\ resp'.new_attendance_records = 0
               /\ records' = records
               /\ sessions' = sessions]_vars

\* A face that matches no template of a non-empty registry was answered
\* with an empty list on a session that is still active.
C17_Witness ==
    /\ resp.op = "recognize" /\ resp.code = 200
    /\ Len(resp.img.regions) = 1 /\ resp.img.regions[1] # NoEmbedding
    /\ faces # <<>>
    /\ resp.recognized_students = <<>>
    /\ resp.new_attendance_records = 0
    /\ sessions[resp.sid].status = "active"
    /\ sessions[resp.sid].present_count = 0
    /\ records = <<>>

\* ---------------------------------------------------- concurrency claims
\* C19: once end_session has committed status completed (and stamped
\* end_time) for a session, no step of a concurrent recognize_and_record
\* commits an AttendanceRecord for it or changes its present_count.
C19_NothingAfterEndCommit ==
    [][\A sid \in SessionIds :
          (sessions[sid].status = "completed" /\ sessions[sid].end_time # None)
          => /\ RowsOf(records', sid) = RowsOf(records, sid)
             /\ sessions'[sid].present_count = sessions[sid].present_count]_vars

\* Both workers have committed a recognize_and_record request on the same
\* session, each with one new record, for two different students.
BothCommittedDifferentStudents ==
    /\ req[1].pc = "respond" /\ req[2].pc = "respond"
    /\ req[1].session_id = req[2].session_id
    /\ Len(req[1].recognized) = 1 /\ Len(req[2].recognized) = 1
    /\ req[1].recognized[1].student_id # req[2].recognized[1].student_id
    /\ req[1].new = 1 /\ req[2].new = 1

\* C20: after two concurrent recognize_and_record requests on the same live
\* session that recognized two different students have both committed,
\* present_count equals the number of AttendanceRecords of the session.
C20_NoLostIncrement ==
    BothCommittedDifferentStudents
    => sessions[req[1].session_id].present_count
          = Len(RowsOf(records, req[1].session_id))

\* ------------------------------------------------------- session claims
AllowedTransition(from, to) ==
    \/ from = to
    \/ from = "scheduled" /\ to = "active"
    \/ from = "active" /\ to = "completed"
    \/ from \in {"active", "scheduled"} /\ to = "cancelled"

C22_DetectedInsideWindow ==
    \A i \in 1..Len(records) :
        LET session == sessions[records[i].session_id]
        IN  /\ session.start_time <= records[i].detected_time
            /\ records[i].detected_time
                  < session.start_time + session.scheduled_duration * SecondsPerMinute

\* A step in which a worker builds the response of recognize_and_record.
RespondStep(w) == req[w].pc = "respond" /\ req'[w].pc = "done"

\* C23: the minutes_remaining of a successful recognize_and_record is the
\* floor of the minutes left until start_time + scheduled_duration when the
\* response is built: between 0 and scheduled_duration, 0 once the end time
\* has been reached, and equal to AttendanceSession.remaining_minutes of the
\* session the request loaded.
C23_MinutesRemainingIsBudget ==
    [][\A w \in Workers :
          RespondStep(w) =>
              LET session == req[w].session
                  left == SessionEnd(session) - now
              IN  /\ resp'.minutes_remaining
                        = (IF left <= 0 THEN 0 ELSE left \div SecondsPerMinute)
                  /\ resp'.minutes_remaining \in 0..session.scheduled_duration
                  /\ resp'.minutes_remaining = remaining_minutes(session, now)]_vars

\* C24: in the response of a successful recognize_and_record,
\* recognized_students holds every face of the image that matches a template
\* (whether or not its student was already recorded), new_attendance_records
\* is the number of AttendanceRecords the request inserted, and that number
\* is at most the number of distinct students in recognized_students.
C24_ResponseCountsInsertedRecords ==
    [][(RecognizeStep /\ resp'.code = 200) =>
          /\ \A k \in 1..Len(resp'.img.regions) :
                Matches(resp'.img.regions[k]) =>
                    \E j \in 1..Len(resp'.recognized_students) :
                        resp'.recognized_students[j].bbox = k
          /\ resp'.new_attendance_records = Len(records') - Len(records)
          /\ resp'.new_attendance_records
                <= Cardinality({resp'.recognized_students[j].student_id :
                                    j \in 1..Len(resp'.recognized_students)})]_vars

\* The upload passes every check of register_student_face.
Usable(file) ==
    /\ IsImageType(file.content_type) /\ file.size <= MaxImageBytes
    /\ file.decodable /\ file.whole # NoEmbedding

====
